---- MODULE Spec2Model ----
(***************************************************************************)
(* Model of scalogramify (src/main.py): the .aaa file loader load_aaa, the *)
(* renderer generate_scalogram and the batch driver process_aaa_files.     *)
(*                                                                         *)
(* Text is modelled as tuples of one-character strings, so that endswith,  *)
(* split('.') and concatenation are computed and not assumed.  Times are   *)
(* exact rationals counted in half seconds (dt = 1 means 0.5 s).           *)
(***************************************************************************)
EXTENDS Integers, Sequences, FiniteSets

VARIABLES
    ffp,        \* LoaderSpec: the file handed to load_aaa
    ret,        \* LoaderSpec: what load_aaa did with it (NoResult before the call)
    in_kind,    \* what the input path is: "absent", "dir" or "file"
    listing,    \* os.listdir(input_directory): entries [name, file] in listing order
    pc,         \* position of process_aaa_files
    idx,        \* index in listing of the entry the for loop is at
    rec,        \* the (x, y) pair load_aaa returned for the current entry
    out_exists, \* whether the folder `out` exists
    out_files,  \* names of the files in the folder `out`
    out0,       \* the folder `out` when the run started: [exists, files]
    calls       \* history of the run: what was called on which entry

vars == <<ffp, ret, in_kind, listing, pc, idx, rec, out_exists, out_files, out0, calls>>

(***************************************************************************)
(* Bounds                                                                  *)
(***************************************************************************)
MaxRows == 2      \* lines after the header line
MaxCols == 2      \* comma-separated cells on a data line
MaxPad == 1       \* header fields in front of the last two
MaxStemLen == 2   \* letters of a file name in front of its ending
MaxFiles == 3     \* entries of the input directory

Min(S) == CHOOSE m \in S : \A o \in S : m <= o
Max(S) == CHOOSE m \in S : \A o \in S : m >= o

SeqsUpTo(S, n) == UNION {[1..k -> S] : k \in 0..n}

(***************************************************************************)
(* Input files                                                             *)
(***************************************************************************)
\* A header field: an integer literal ("3"), a decimal literal ("0.5",
\* v counted in halves) or anything else ("abc", "").
IntTokens == {[k |-> "int", v |-> n] : n \in -1..(MaxRows + 1)}
FloatTokens == {[k |-> "float", v |-> h] : h \in {-1, 0, 1}}
TextToken == [k |-> "text", v |-> 0]
Tokens == IntTokens \cup FloatTokens \cup {TextToken}
PadTokens == {[k |-> "int", v |-> 1], TextToken}

\* The header line split at its commas: one or two fields from Tokens
\* behind up to MaxPad leading fields.
Headers ==
    {p \o t : p \in SeqsUpTo(PadTokens, MaxPad),
              t \in SeqsUpTo(Tokens, 2) \ {<<>>}}

\* A data line is the tuple of its cells; <<>> is a blank line.  Only the
\* first cell varies, the others are 0.
CellValues == {0, 1}
DataLine(c, v) == [j \in 1..c |-> IF j = 1 THEN v ELSE 0]
DataLines == {<<>>} \cup {DataLine(c, v) : c \in 1..MaxCols, v \in CellValues}

Files == [header : Headers, rows : SeqsUpTo(DataLines, MaxRows)]

(***************************************************************************)
(* load_aaa                                                                *)
(***************************************************************************)
Raise(e) == [ok |-> FALSE, err |-> e, time |-> <<>>, vals |-> <<>>]
Return(t, y) == [ok |-> TRUE, err |-> "", time |-> t, vals |-> y]
NoResult == [ok |-> FALSE, err |-> "not called", time |-> <<>>, vals |-> <<>>]

RECURSIVE SkipBlank(_)
SkipBlank(rows) ==
    IF rows = <<>> THEN <<>>
    ELSE IF Head(rows) = <<>> THEN SkipBlank(Tail(rows))
    ELSE <<Head(rows)>> \o SkipBlank(Tail(rows))

\* pd.read_csv(ffp, header=None, skiprows=1, usecols=[0]): the lines after
\* the header line, blank lines dropped, cut down to the columns of usecols.
\* No line left is pandas' EmptyDataError.
read_csv(f) ==
    LET lines == SkipBlank(f.rows)
    IN  IF lines = <<>>
        THEN [ok |-> FALSE, table |-> <<>>, ncols |-> 0]
        ELSE [ok |-> TRUE,
              table |-> [r \in 1..Len(lines) |-> <<lines[r][1]>>],
              ncols |-> 1]

\* int(s.strip()) and float(s.strip())
IntOk(t) == t.k = "int"
IntVal(t) == t.v
FloatOk(t) == t.k \in {"int", "float"}
FloatVal(t) == IF t.k = "int" THEN 2 * t.v ELSE t.v

\* ceil(a / b) for b # 0
CeilDiv(a, b) ==
    LET n == IF b < 0 THEN -a ELSE a
        d == IF b < 0 THEN -b ELSE b
    IN  IF n % d = 0 THEN n \div d ELSE (n \div d) + 1

arange_from_step(start, stop, step) ==
    LET len == Max({0, CeilDiv(stop - start, step)})
    IN  [j \in 1..len |-> start + j * step]

\* np.arange(start, stop, step), step # 0
arange(start, stop, step) ==
    LET len == Max({0, CeilDiv(stop - start, step)})
    IN  [j \in 1..len |-> start + (j - 1) * step]

time_values_inclusive(n, dt) == arange(0, n * dt + dt, dt)

\* np.arange(0.0, n_entries * dt, dt)[:n_entries]
time_values(n, dt) ==
    LET a == arange(0, n * dt, dt)
    IN  SubSeq(a, 1, Min({n, Len(a)}))

RowCountAtMost(df, n) == Len(df.table) <= n

\* assert df.shape[0] == n_entries
RowCountOk(df, n) == Len(df.table) = n

load_aaa(f) ==
    LET df == read_csv(f)
        header_line == f.header
        last == header_line[Len(header_line)]
        before == header_line[Len(header_line) - 1]
    IN  IF ~df.ok THEN Raise("EmptyDataError")
        ELSE IF df.ncols # 1 THEN Raise("AssertionError")
        ELSE IF ~FloatOk(last) THEN Raise("ValueError")
        ELSE IF Len(header_line) < 2 THEN Raise("IndexError")
        ELSE IF ~IntOk(before) THEN Raise("ValueError")
        ELSE IF ~RowCountOk(df, IntVal(before)) THEN Raise("AssertionError")
        ELSE IF FloatVal(last) = 0 THEN Raise("ZeroDivisionError")
        ELSE Return(time_values(IntVal(before), FloatVal(last)),
                    [r \in 1..Len(df.table) |-> df.table[r][1]])

(***************************************************************************)
(* The loader on its own: one call of load_aaa on any file                 *)
(***************************************************************************)
NoFile == [header |-> <<TextToken>>, rows |-> <<>>]

Idle ==
    /\ in_kind = "absent" /\ listing = <<>> /\ pc = "idle" /\ idx = 0
    /\ rec = NoResult /\ out_exists = FALSE /\ out_files = {}
    /\ out0 = [exists |-> FALSE, files |-> {}] /\ calls = <<>>

LoaderInit ==
    /\ ffp \in Files
    /\ ret = NoResult
    /\ Idle

LoadCall ==
    /\ ret = NoResult
    /\ ret' = load_aaa(ffp)
    /\ UNCHANGED <<ffp, in_kind, listing, pc, idx, rec, out_exists, out_files, out0, calls>>

LoaderNext == LoadCall

LoaderSpec == LoaderInit /\ [][LoaderNext]_vars

(***************************************************************************)
(* File names and paths                                                    *)
(***************************************************************************)
AaaExt == <<".", "a", "a", "a">>
PngExt == <<".", "p", "n", "g">>
OutFolder == <<"o", "u", "t">>

\* File names: one to MaxStemLen letters in front of one of the endings
\* ".aaa", ".a.aaa" and "aaa" (the last without the dot of the extension).
StemChars == {"a"}
Endings == {AaaExt, <<".", "a">> \o AaaExt, <<"a", "a", "a">>}
Names ==
    {s \o e : s \in SeqsUpTo(StemChars, MaxStemLen) \ {<<>>}, e \in Endings}

endswith_tail(s, suffix) ==
    /\ Len(s) >= Len(suffix) - 1
    /\ SubSeq(s, Len(s) - Len(suffix) + 2, Len(s)) = Tail(suffix)

\* s.endswith(suffix)
endswith(s, suffix) ==
    /\ Len(s) >= Len(suffix)
    /\ SubSeq(s, Len(s) - Len(suffix) + 1, Len(s)) = suffix

\* s.split('.')[0]
split_dot_first(s) ==
    LET dots == {j \in 1..Len(s) : s[j] = "."}
    IN  IF dots = {} THEN s ELSE SubSeq(s, 1, Min(dots) - 1)

\* os.path.join(folder, name)
path_join(folder, name) == folder \o <<"/">> \o name

\* os.path.splitext(p)[1]: from the last dot of the last path component,
\* unless only dots stand in front of it in that component
splitext(p) ==
    LET sep == Max({0} \cup {j \in 1..Len(p) : p[j] = "/"})
        dot == Max({0} \cup {j \in (sep + 1)..Len(p) : p[j] = "."})
    IN  IF dot = 0 \/ \A j \in (sep + 1)..dot : p[j] = "."
        THEN <<>>
        ELSE SubSeq(p, dot, Len(p))

RECURSIVE rstrip_dots(_)
rstrip_dots(p) ==
    IF p # <<>> /\ p[Len(p)] = "." THEN rstrip_dots(SubSeq(p, 1, Len(p) - 1)) ELSE p

\* The file plt.savefig(fname) writes.  The format is the extension without
\* its dot, os.path.splitext(fname)[1][1:]; when that is empty (no
\* extension, or a name ending in a dot) the default format's extension is
\* appended to the name stripped of its trailing dots.
savefig_path(fname) ==
    LET ext == splitext(fname)
        format == IF ext = <<>> THEN <<>> ELSE Tail(ext)
    IN  IF format = <<>> THEN rstrip_dots(fname) \o PngExt ELSE fname

\* generate_scalogram's file for the keyword filename=...
ScalogramPath(filename) == savefig_path(path_join(OutFolder, split_dot_first(filename)))

\* the filename process_aaa_files passes: f'{Path(file_path).name}.png'
PassedFilename(name) == name \o PngExt

(***************************************************************************)
(* process_aaa_files and generate_scalogram                                *)
(***************************************************************************)
\* Directory contents of the batch runs: a well-formed file of two samples
\* every 0.5 s, and one whose header declares a sample more than it holds.
GoodFile ==
    [header |-> <<[k |-> "int", v |-> 2], [k |-> "float", v |-> 1]>>,
     rows |-> <<<<0>>, <<1>>>>]
ShortFile ==
    [header |-> <<[k |-> "int", v |-> 2], [k |-> "float", v |-> 1]>>,
     rows |-> <<<<1>>>>]
BatchFiles == {GoodFile, ShortFile}

Entries == [name : Names, file : BatchFiles]
Listings ==
    {l \in SeqsUpTo(Entries, MaxFiles) :
        \A p, q \in DOMAIN l : p # q => l[p].name # l[q].name}

Event(op, at, path) == [op |-> op, at |-> at, path |-> path]

StartPcNoCheck(kind) == IF kind = "dir" THEN "iter" ELSE "raised"

\* where process_aaa_files goes first: the early return when the path does
\* not exist, else os.listdir, which raises on a path that is no directory
StartPc(kind) ==
    IF kind = "absent" THEN "done"
    ELSE IF kind = "dir" THEN "iter"
    ELSE "raised"

SkipFailed(k) == [pc |-> "iter", idx |-> k + 1]

\* an exception in the loop body is not caught: the run ends at entry k
Propagate(k) == [pc |-> "raised", idx |-> k]

LoadAlwaysReturns(res) == TRUE

\* x, y = load_aaa(...) binds only when load_aaa returned
LoadReturned(res) == res.ok

Init ==
    /\ ffp = NoFile
    /\ ret = NoResult
    /\ in_kind \in {"absent", "dir", "file"}
    /\ listing \in Listings
    /\ in_kind # "dir" => listing = <<>>
    /\ pc = "start"
    /\ idx = 0
    /\ rec = NoResult
    /\ out_exists \in BOOLEAN
    /\ out_files = {}
    /\ out0 = [exists |-> out_exists, files |-> out_files]
    /\ calls = <<>>

Fixed == UNCHANGED <<ffp, ret, in_kind, listing, out0>>

\* lines 101-106: the existence check and os.listdir
Start ==
    /\ pc = "start"
    /\ pc' = StartPc(in_kind)
    /\ idx' = IF StartPc(in_kind) = "iter" THEN 1 ELSE idx
    /\ calls' = IF StartPc(in_kind) = "raised"
                THEN Append(calls, Event("raise", idx, <<>>))
                ELSE calls
    /\ UNCHANGED <<rec, out_exists, out_files>>
    /\ Fixed

\* line 106: the listing is exhausted, the function returns
LoopEnd ==
    /\ pc = "iter"
    /\ idx > Len(listing)
    /\ pc' = "done"
    /\ UNCHANGED <<idx, rec, out_exists, out_files, calls>>
    /\ Fixed

\* line 107: an entry whose name does not end with .aaa is passed over
Skip ==
    /\ pc = "iter"
    /\ idx <= Len(listing)
    /\ ~endswith(listing[idx].name, AaaExt)
    /\ idx' = idx + 1
    /\ UNCHANGED <<pc, rec, out_exists, out_files, calls>>
    /\ Fixed

\* lines 107-110: load_aaa on an entry whose name ends with .aaa
Load ==
    /\ pc = "iter"
    /\ idx <= Len(listing)
    /\ endswith(listing[idx].name, AaaExt)
    /\ LET res == load_aaa(listing[idx].file)
       IN  IF LoadReturned(res)
           THEN /\ rec' = res
                /\ pc' = "cwt"
                /\ idx' = idx
                /\ calls' = Append(calls, Event("load", idx, <<>>))
           ELSE /\ rec' = rec
                /\ pc' = Propagate(idx).pc
                /\ idx' = Propagate(idx).idx
                /\ calls' = calls \o <<Event("load", idx, <<>>),
                                       Event("raise", idx, <<>>)>>
    /\ UNCHANGED <<out_exists, out_files>>
    /\ Fixed

\* line 72: pywt.cwt on the loaded values, which may raise
cwt ==
    /\ pc = "cwt"
    /\ \E raises \in BOOLEAN :
          IF raises
          THEN /\ pc' = Propagate(idx).pc
               /\ idx' = Propagate(idx).idx
               /\ calls' = calls \o <<Event("cwt", idx, <<>>),
                                      Event("raise", idx, <<>>)>>
          ELSE /\ pc' = "dirs"
               /\ idx' = idx
               /\ calls' = Append(calls, Event("cwt", idx, <<>>))
    /\ UNCHANGED <<rec, out_exists, out_files>>
    /\ Fixed

\* lines 75-76: the output folder is created when it does not exist
makedirs ==
    /\ pc = "dirs"
    /\ out_exists' = TRUE
    /\ calls' = IF out_exists THEN calls
                ELSE Append(calls, Event("makedirs", idx, OutFolder))
    /\ pc' = "save"
    /\ UNCHANGED <<idx, rec, out_files>>
    /\ Fixed

\* lines 79-91: the figure is plotted and saved, which may raise; then the
\* loop goes to the next entry
savefig ==
    /\ pc = "save"
    /\ LET path == ScalogramPath(PassedFilename(listing[idx].name))
       IN  \E raises \in BOOLEAN :
              IF raises
              THEN /\ pc' = Propagate(idx).pc
                   /\ idx' = Propagate(idx).idx
                   /\ calls' = Append(calls, Event("raise", idx, <<>>))
                   /\ UNCHANGED <<rec, out_files>>
              ELSE /\ out_files' = out_files \cup {path}
                   /\ calls' = Append(calls, Event("savefig", idx, path))
                   /\ rec' = NoResult
                   /\ pc' = "iter"
                   /\ idx' = idx + 1
    /\ UNCHANGED out_exists
    /\ Fixed

Next == Start \/ LoopEnd \/ Skip \/ Load \/ cwt \/ makedirs \/ savefig

Spec == Init /\ [][Next]_vars

(***************************************************************************)
(* Properties of load_aaa, checked under LoaderSpec                        *)
(***************************************************************************)
Called == ret # NoResult
HeaderLast == ffp.header[Len(ffp.header)]
HeaderBeforeLast == ffp.header[Len(ffp.header) - 1]
DeclaresCount == Len(ffp.header) >= 2 /\ HeaderBeforeLast.k = "int"
DeclaredCount == HeaderBeforeLast.v
RowsRead == Cardinality({r \in DOMAIN ffp.rows : ffp.rows[r] # <<>>})
HeaderDt == IF HeaderLast.k = "int" THEN 2 * HeaderLast.v ELSE HeaderLast.v
ConstantStep ==
    /\ ret.time[1] = 0
    /\ \A j \in 1..(Len(ret.time) - 1) : ret.time[j + 1] - ret.time[j] = HeaderDt

\* C1: whenever load_aaa returns, the time sequence and the value sequence
\* have the same length, and that length is the sample count declared in
\* the second-to-last field of the header line.
C1_LengthsEqualDeclaredCount ==
    ret.ok =>
        /\ DeclaresCount
        /\ Len(ret.time) = Len(ret.vals)
        /\ Len(ret.vals) = DeclaredCount

\* a file with a leading header field and two samples was loaded
C1_Witness ==
    /\ ret.ok
    /\ Len(ffp.header) = 3
    /\ ffp.header[1].v # DeclaredCount
    /\ Len(ret.time) = 2

\* C3: load_aaa raises whenever a data line holds more than one
\* comma-separated value; no such file is returned as a (time, value) pair.
C3_MultiColumnRaises ==
    (Called /\ \E r \in DOMAIN ffp.rows : Len(ffp.rows[r]) > 1) => ~ret.ok

\* C4: load_aaa raises, and returns no sequences, whenever the number of
\* data rows read after the header line differs from the sample count the
\* header declares, with fewer rows as with more rows.
C4_RowCountMismatchRaises ==
    (Called /\ DeclaresCount /\ RowsRead # DeclaredCount) =>
        /\ ~ret.ok
        /\ ret.time = <<>>
        /\ ret.vals = <<>>

\* the row-count assertion fired on a file with more rows than declared
C4_Witness ==
    /\ Called
    /\ DeclaresCount
    /\ DeclaredCount >= 1
    /\ RowsRead > DeclaredCount
    /\ HeaderLast.k = "float"
    /\ ret.err = "AssertionError"

\* C6 as stated: for every accepted file the time sequence starts at 0, has
\* constant step dt and is monotonically increasing.
C6_Original_IncreasingConstantStep ==
    ret.ok =>
        /\ ConstantStep
        /\ \A j \in 1..(Len(ret.time) - 1) : ret.time[j + 1] > ret.time[j]

\* C6 amended: for every accepted file the time sequence starts at 0 and
\* has constant step dt; it is increasing when dt > 0 and decreasing when
\* the header's dt is negative.
C6_ConstantStepSignOfDt ==
    ret.ok =>
        /\ ConstantStep
        /\ \A j \in 1..(Len(ret.time) - 1) :
              /\ HeaderDt > 0 => ret.time[j + 1] > ret.time[j]
              /\ HeaderDt < 0 => ret.time[j + 1] < ret.time[j]

\* two samples were loaded with a positive sampling interval
C6_Witness ==
    /\ ret.ok
    /\ Len(ret.time) >= 2
    /\ HeaderDt > 0
    /\ ret.time[2] > ret.time[1]

(***************************************************************************)
(* Properties of process_aaa_files, checked under Spec                     *)
(***************************************************************************)
\* the name ends with the four characters ".aaa"
IsAaaName(nm) ==
    /\ Len(nm) >= 4
    /\ nm[Len(nm) - 3] = "."
    /\ nm[Len(nm) - 2] = "a"
    /\ nm[Len(nm) - 1] = "a"
    /\ nm[Len(nm)] = "a"
AaaEntries == {k \in DOMAIN listing : IsAaaName(listing[k].name)}
EventsOf(op, k) == {p \in DOMAIN calls : calls[p].op = op /\ calls[p].at = k}
Loads(k) == load_aaa(listing[k].file).ok

\* C2: the image of every processed entry named F is written to the folder
\* out under the name F followed by ".png".
C2_ImageNamedFilenamePng ==
    \A p \in DOMAIN calls :
        calls[p].op = "savefig" =>
            calls[p].path =
                <<"o", "u", "t", "/">> \o listing[calls[p].at].name
                    \o <<".", "p", "n", "g">>

\* C5: after a completed run over a directory the number of image files
\* equals the number of entries whose name ends in .aaa.
C5_OneImagePerFile ==
    (pc = "done" /\ in_kind = "dir") =>
        Cardinality(out_files) = Cardinality(AaaEntries)

\* C7: with an input path that does not exist the run returns without
\* raising, calls neither load_aaa nor generate_scalogram, and leaves the
\* output folder as it was.
C7_MissingDirectoryIsNoOp ==
    in_kind = "absent" =>
        /\ pc \in {"start", "done"}
        /\ calls = <<>>
        /\ rec = NoResult
        /\ out_exists = out0.exists
        /\ out_files = out0.files

\* the run on a missing directory has returned
C7_Witness == in_kind = "absent" /\ pc = "done" /\ ~out_exists

\* C8: an exception raised on an entry ends the run there: it is the last
\* thing that happens, nothing was called on a later entry, and the images
\* written before it are still in place.
C8_RaiseAbortsRun ==
    /\ \A p \in DOMAIN calls :
          calls[p].op = "raise" =>
              /\ p = Len(calls)
              /\ pc = "raised"
              /\ idx = calls[p].at
    /\ pc = "raised" =>
          /\ \A p \in DOMAIN calls : calls[p].at <= idx
          /\ \A p \in DOMAIN calls :
                calls[p].op = "savefig" => calls[p].path \in out_files

\* the second of three entries raised after the image of the first was
\* written, and the third, a loadable .aaa file, was left alone
C8_Witness ==
    /\ pc = "raised"
    /\ idx = 2
    /\ Len(listing) = 3
    /\ EventsOf("savefig", 1) # {}
    /\ IsAaaName(listing[3].name)
    /\ Loads(3)
    /\ EventsOf("load", 3) = {}
    /\ out_files # {}

\* C9: load_aaa and generate_scalogram are called on an entry only if its
\* name ends with .aaa, and a run that returns has loaded, transformed and
\* saved every such entry exactly once.
C9_OnlyAaaEachOnce ==
    /\ \A p \in DOMAIN calls : calls[p].at >= 1 => calls[p].at \in AaaEntries
    /\ pc = "done" =>
          \A k \in AaaEntries :
              /\ Cardinality(EventsOf("load", k)) = 1
              /\ Cardinality(EventsOf("cwt", k)) = 1
              /\ Cardinality(EventsOf("savefig", k)) = 1

\* a run returned from a directory holding an .aaa entry and another entry
C9_Witness ==
    /\ pc = "done"
    /\ AaaEntries # {}
    /\ AaaEntries # DOMAIN listing
    /\ \E k \in AaaEntries : EventsOf("savefig", k) # {}

\* C10: entries are handled one after the other; the image of an entry is
\* saved only after load_aaa returned for that entry, with nothing called
\* on another entry in between; an entry whose loading fails is never
\* transformed or saved and the output folder is not created for it.
C10_LoadThenRenderPerEntry ==
    /\ \A p, q \in DOMAIN calls : p < q => calls[p].at <= calls[q].at
    /\ \A p \in DOMAIN calls :
          calls[p].op \in {"cwt", "makedirs", "savefig"} =>
              /\ Loads(calls[p].at)
              /\ \E q \in 1..(p - 1) :
                    /\ calls[q].op = "load"
                    /\ \A r \in q..p : calls[r].at = calls[p].at
    /\ \A k \in DOMAIN listing :
          (EventsOf("load", k) # {} /\ ~Loads(k)) =>
              /\ EventsOf("cwt", k) = {}
              /\ EventsOf("makedirs", k) = {}
              /\ EventsOf("savefig", k) = {}
              /\ pc = "raised"

\* the first entry's image was saved before the second entry's loading
\* failed, and the output folder was created for the first entry only
C10_Witness ==
    /\ Len(calls) >= 2
    /\ EventsOf("savefig", 1) # {}
    /\ EventsOf("makedirs", 1) # {}
    /\ EventsOf("load", 2) # {}
    /\ ~Loads(2)
    /\ pc = "raised"

====
